---- MODULE Spec2Model ----
(***************************************************************************)
(* csv2parquet: the conversion driver `convert` of                         *)
(* crates/csv2parquet/src/lib.rs as a state machine.                       *)
(*                                                                         *)
(* One action per library call (or per group of in-memory builder calls)   *)
(* of `convert`, in program order; `pc` is the position in the function.   *)
(* Every call that returns a Result may fail: the outcome is drawn with \E *)
(* in the action.  The configuration (`opts`), the contents of the input   *)
(* file (`lines`) and of the schema file (`schema_json`) are fixed by Init.*)
(*                                                                         *)
(* The CSV reader, the schema inference and the Parquet writer are library *)
(* code; they are modelled by the effect the call has on the values        *)
(* `convert` holds:                                                        *)
(*   - Format::infer_schema(&mut input, n) takes any `Read`: it reads the  *)
(*     header record and up to n records through the stream and never      *)
(*     seeks, so it leaves the stream where its (buffered) reading stopped;*)
(*   - ReaderBuilder::build(input) reads from the position the stream is   *)
(*     at, skipping one line first when `header` is set;                   *)
(*   - WriterProperties::builder() starts from the library defaults        *)
(*     (dictionary encoding enabled); set_encoding aborts the process      *)
(*     ("Dictionary encoding can not be used as fallback encoding") when   *)
(*     given PLAIN_DICTIONARY or RLE_DICTIONARY;                           *)
(*   - `?` / `.into()` on an io::Error or ArrowError uses the library's    *)
(*     From conversion into ParquetError, which yields its External        *)
(*     wrapper variant, not ParquetError::General.                         *)
(***************************************************************************)
EXTENDS Naturals, Sequences, FiniteSets

\* ---------------------------------------------------------------- bounds
MaxLines == 3      \* lines of the input file (header line included)
MaxRecords == 1    \* largest max_read_records value tried
BatchSize == 2     \* rows per record batch (stand-in for the reader's batch size)

\* ---------------------------------------------------------------- values
None == <<>>
Some(v) == <<v>>
Option(S) == {None} \cup {Some(v) : v \in S}
unwrap_or(o, d) == IF o = None THEN d ELSE o[1]

Min(a, b) == IF a <= b THEN a ELSE b
Max(a, b) == IF a >= b THEN a ELSE b

\* A cell is either an integer literal or free text; one column per line.
Values == {"1", "x"}
Files == UNION {[1..n -> Values] : n \in 0..MaxLines}

DataTypes == {"Int64", "Utf8"}

ParquetCompression ==
  {"UNCOMPRESSED", "SNAPPY", "GZIP", "LZO", "BROTLI", "LZ4", "ZSTD", "LZ4_RAW"}

ParquetEncoding ==
  {"PLAIN", "PLAIN_DICTIONARY", "RLE", "RLE_DICTIONARY", "DELTA_BINARY_PACKED",
   "DELTA_LENGTH_BYTE_ARRAY", "DELTA_BYTE_ARRAY", "BYTE_STREAM_SPLIT"}

ParquetEnabledStatistics == {"None", "Chunk", "Page"}

\* usize settings and the creator string: one representative value each.
Sizes == {1}
Creators == {"me"}

\* Opts::new(input, output): every optional setting absent, flags false.
Opts_new(in, out) ==
  [input |-> in, output |-> out,
   schema_file |-> None, max_read_records |-> None, header |-> None,
   delimiter |-> ",",
   compression |-> None, encoding |-> None,
   data_page_size_limit |-> None, dictionary_page_size_limit |-> None,
   write_batch_size |-> None, max_row_group_size |-> None,
   created_by |-> None, dictionary |-> FALSE,
   statistics |-> None, max_statistics_size |-> None,
   print_schema |-> FALSE, dry |-> FALSE]

DefaultOpts == Opts_new("in.csv", "out.parquet")

\* Configurations that vary what drives the pipeline.
PipelineOpts ==
  {[DefaultOpts EXCEPT !.schema_file = sf, !.max_read_records = mrr, !.header = h,
                       !.print_schema = ps, !.dry = d, !.encoding = e]
     : sf \in Option({"schema.json"}), mrr \in Option(0..MaxRecords),
       h \in Option(BOOLEAN), ps \in BOOLEAN, d \in BOOLEAN,
       e \in {None, Some("PLAIN"), Some("RLE_DICTIONARY")}}

\* Configurations that vary every writer setting.
WriterOpts ==
  {[DefaultOpts EXCEPT !.compression = c, !.encoding = e, !.statistics = st,
                       !.dictionary = d, !.created_by = cb,
                       !.data_page_size_limit = sz[1],
                       !.dictionary_page_size_limit = sz[2],
                       !.write_batch_size = sz[3],
                       !.max_row_group_size = sz[4],
                       !.max_statistics_size = sz[5]]
     : c \in Option(ParquetCompression), e \in Option(ParquetEncoding),
       st \in Option(ParquetEnabledStatistics), d \in BOOLEAN,
       cb \in Option(Creators), sz \in [1..5 -> Option(Sizes)]}

\* ---------------------------------------------------------------- state
VARIABLES
  pc,           \* position in convert
  opts,         \* the configuration, consumed by convert
  lines,        \* contents of the input file, one value per line
  schema_json,  \* the data type the schema file declares
  input,        \* the input stream: opened, wrapped, position (in lines)
  schema,       \* Option: the resolved schema (its column type)
  inferCalls,   \* number of calls of Format::infer_schema
  stdout,       \* lines printed on standard output
  stderr,       \* lines printed on the error stream
  reader,       \* the batch reader: built, schema, rows still to yield
  output,       \* the output path: "untouched" or "created"
  props,        \* Option: the writer properties built
  writer,       \* the ArrowWriter: state, schema, props, batches written
  batch,        \* Option: the batch read and not yet written
  yielded,      \* batches the reader has yielded so far, in order
  reads,        \* calls of reader.next() that returned an error
  writes,       \* calls of writer.write() that returned an error
  result        \* what convert returned

vars == <<pc, opts, lines, schema_json, input, schema, inferCalls, stdout, stderr,
          reader, output, props, writer, batch, yielded, reads, writes, result>>

\* ---------------------------------------------------------------- results
NoResult == [tag |-> "None", kind |-> "-", at |-> "-"]
Ok(how) == [tag |-> "Ok", kind |-> how, at |-> "-"]
Err(kind, at) == [tag |-> "Err", kind |-> kind, at |-> at]

\* Mutant of General: the error is propagated with `?` instead of being wrapped.
General_Unwrapped(at) == Err("External", at)

\* ParquetError::General(format!(...)): the driver's own wrapping.
General(at) == Err("General", at)
\* `?` on io::Error: From<io::Error> for ParquetError.
FromIoError(at) == Err("External", at)
\* `?` / .into() on ArrowError: From<ArrowError> for ParquetError.
FromArrowError(at) == Err("External", at)
\* `?` on a ParquetError of the writer: passed through unchanged.
Passthrough(at) == Err("Parquet", at)

Return(r) == pc' = "done" /\ result' = r

\* ---------------------------------------------------------------- library
IsInt(v) == v = "1"

\* Lines the CSV parser of infer_schema reads: the first record always (the
\* header, or the record that gives the column count), then records up to n.
LinesParsed(ls, header, n) ==
  LET limit == IF n = None THEN Len(ls) ELSE n[1]
  IN  IF header THEN Min(Len(ls), 1 + limit) ELSE Min(Len(ls), Max(1, limit))

\* The records infer_schema samples.
Sampled(ls, header, n) ==
  LET limit == IF n = None THEN Len(ls) ELSE n[1]
      first == IF header THEN 2 ELSE 1
  IN  SubSeq(ls, first, Min(Len(ls), first + limit - 1))

\* The column type inferred: Utf8 when nothing was sampled or a value is text.
infer_schema(ls, header, n) ==
  LET s == Sampled(ls, header, n)
  IN  IF Len(s) > 0 /\ \A i \in 1..Len(s) : IsInt(s[i]) THEN "Int64" ELSE "Utf8"

\* serde_json::to_string_pretty(&schema)
to_string_pretty(t) ==
  IF t = "Int64" THEN "{fields:[{name:c1,data_type:Int64}]}"
                 ELSE "{fields:[{name:c1,data_type:Utf8}]}"

\* SeekableReader::from_unbuffered_reader(file, max_read_records): a buffering
\* wrapper that reads from the start of the wrapped stream.
from_unbuffered_reader(f, n) == [opened |-> TRUE, wrapped |-> TRUE, pos |-> 0]

\* The rows a reader built over a stream at line `pos` yields.
RowsFrom(ls, pos, header) ==
  SubSeq(ls, pos + (IF header THEN 1 ELSE 0) + 1, Len(ls))

Header == unwrap_or(opts.header, TRUE)

ClosedInput == [opened |-> FALSE, wrapped |-> FALSE, pos |-> 0]
NoReader == [built |-> FALSE, schema |-> None, rows |-> <<>>]
NoWriter == [state |-> "none", schema |-> None, props |-> None, batches |-> <<>>]

\* ---------------------------------------------------------------- Init
InitWith(O, F, T) ==
  /\ pc = "open_input"
  /\ opts \in O
  /\ lines \in F
  /\ schema_json \in T
  /\ input = ClosedInput
  /\ schema = None
  /\ inferCalls = 0
  /\ stdout = <<>>
  /\ stderr = <<>>
  /\ reader = NoReader
  /\ output = "untouched"
  /\ props = None
  /\ writer = NoWriter
  /\ batch = None
  /\ yielded = <<>>
  /\ reads = 0
  /\ writes = 0
  /\ result = NoResult

Init == InitWith(PipelineOpts, Files, DataTypes)

\* ---------------------------------------------------------------- actions
\* let mut file = File::open(&opts.input)?;
OpenInput ==
  /\ pc = "open_input"
  /\ \E ok \in BOOLEAN :
       IF ok
         THEN /\ input' = [input EXCEPT !.opened = TRUE]
              /\ pc' = "wrap_input"
              /\ UNCHANGED result
         ELSE /\ Return(FromIoError("open_input"))
              /\ UNCHANGED input
  /\ UNCHANGED <<opts, lines, schema_json, schema, inferCalls, stdout, stderr,
                 reader, output, props, writer, batch, yielded, reads, writes>>

\* let mut input = if file.rewind().is_ok() { file } else { SeekableReader(..) };
WrapInput ==
  /\ pc = "wrap_input"
  /\ \E seekable \in BOOLEAN :
       input' = IF seekable
                  THEN [input EXCEPT !.pos = 0]
                  ELSE from_unbuffered_reader(input, opts.max_read_records)
  /\ pc' = "resolve_schema"
  /\ UNCHANGED <<opts, lines, schema_json, schema, inferCalls, stdout, stderr,
                 reader, output, props, writer, batch, yielded, reads, writes, result>>

\* Mutant of LoadSchemaFile: the schema file is opened and parsed, but the
\* schema used is the one inferred from the input.
LoadSchemaFile_Infers ==
  /\ pc = "resolve_schema"
  /\ opts.schema_file # None
  /\ \E outcome \in {"ok", "open_failed", "parse_failed"} :
       CASE outcome = "ok" ->
              /\ schema' = Some(infer_schema(lines, unwrap_or(opts.header, TRUE),
                                             opts.max_read_records))
              /\ pc' = "print_schema"
              /\ UNCHANGED result
         [] outcome = "open_failed" ->
              /\ Return(Err("General", "schema_open"))
              /\ UNCHANGED schema
         [] outcome = "parse_failed" ->
              /\ Return(Err("General", "schema_parse"))
              /\ UNCHANGED schema
  /\ UNCHANGED <<opts, lines, schema_json, input, inferCalls, stdout, stderr,
                 reader, output, props, writer, batch, yielded, reads, writes>>

\* Some(path) => File::open(path) and serde_json::from_reader(schema_file)
LoadSchemaFile ==
  /\ pc = "resolve_schema"
  /\ opts.schema_file # None
  /\ \E outcome \in {"ok", "open_failed", "parse_failed"} :
       CASE outcome = "ok" ->
              /\ schema' = Some(schema_json)
              /\ pc' = "print_schema"
              /\ UNCHANGED result
         [] outcome = "open_failed" ->
              /\ Return(General("schema_open"))
              /\ UNCHANGED schema
         [] outcome = "parse_failed" ->
              /\ Return(General("schema_parse"))
              /\ UNCHANGED schema
  /\ UNCHANGED <<opts, lines, schema_json, input, inferCalls, stdout, stderr,
                 reader, output, props, writer, batch, yielded, reads, writes>>

\* _ => Format::default()...infer_schema(&mut input, opts.max_read_records)
\* The stream is left where the parser's reading stopped: at or after the
\* last line parsed (the parser reads ahead in blocks).
InferSchema ==
  /\ pc = "resolve_schema"
  /\ opts.schema_file = None
  /\ inferCalls' = inferCalls + 1
  /\ \E ok \in BOOLEAN :
     \E p \in LinesParsed(lines, Header, opts.max_read_records)..Len(lines) :
       /\ input' = [input EXCEPT !.pos = p]
       /\ IF ok
            THEN /\ schema' = Some(infer_schema(lines, Header, opts.max_read_records))
                 /\ pc' = "print_schema"
                 /\ UNCHANGED result
            ELSE /\ Return(General("infer_schema"))
                 /\ UNCHANGED schema
  /\ UNCHANGED <<opts, lines, schema_json, stdout, stderr,
                 reader, output, props, writer, batch, yielded, reads, writes>>

\* Mutant of PrintSchema: the early return of dry mode is missing.
PrintSchema_NoDryReturn ==
  /\ pc = "print_schema"
  /\ IF opts.print_schema \/ opts.dry
       THEN /\ stderr' = Append(stderr, "Schema:")
            /\ stdout' = Append(stdout, to_string_pretty(schema[1]))
       ELSE UNCHANGED <<stderr, stdout>>
  /\ pc' = "build_reader"
  /\ UNCHANGED <<opts, lines, schema_json, input, schema, inferCalls,
                 reader, output, props, writer, batch, yielded, reads, writes, result>>

\* if opts.print_schema || opts.dry { eprintln!; println!; if opts.dry { return Ok(()) } }
PrintSchema ==
  /\ pc = "print_schema"
  /\ IF opts.print_schema \/ opts.dry
       THEN /\ stderr' = Append(stderr, "Schema:")
            /\ stdout' = Append(stdout, to_string_pretty(schema[1]))
            /\ IF opts.dry
                 THEN Return(Ok("dry"))
                 ELSE pc' = "build_reader" /\ UNCHANGED result
       ELSE /\ pc' = "build_reader"
            /\ UNCHANGED <<stderr, stdout, result>>
  /\ UNCHANGED <<opts, lines, schema_json, input, schema, inferCalls,
                 reader, output, props, writer, batch, yielded, reads, writes>>

\* Mutant of BuildReader: the output file is created before the reader is built.
BuildReader_AfterCreate ==
  /\ pc = "build_reader"
  /\ output' = "created"
  /\ \E ok \in BOOLEAN :
       IF ok
         THEN /\ reader' = [built |-> TRUE, schema |-> schema,
                            rows |-> RowsFrom(lines, input.pos, Header)]
              /\ pc' = "build_props"
              /\ UNCHANGED result
         ELSE /\ Return(FromArrowError("build_reader"))
              /\ UNCHANGED reader
  /\ UNCHANGED <<opts, lines, schema_json, input, schema, inferCalls, stdout, stderr,
                 props, writer, batch, yielded, reads, writes>>

\* ReaderBuilder::new(Arc::new(schema)).with_header(..).with_delimiter(..).build(input)?
BuildReader ==
  /\ pc = "build_reader"
  /\ \E ok \in BOOLEAN :
       IF ok
         THEN /\ reader' = [built |-> TRUE, schema |-> schema,
                            rows |-> RowsFrom(lines, input.pos, Header)]
              /\ pc' = "create_output"
              /\ UNCHANGED result
         ELSE /\ Return(FromArrowError("build_reader"))
              /\ UNCHANGED reader
  /\ UNCHANGED <<opts, lines, schema_json, input, schema, inferCalls, stdout, stderr,
                 output, props, writer, batch, yielded, reads, writes>>

\* let output = File::create(opts.output)?;
CreateOutput ==
  /\ pc = "create_output"
  /\ \E ok \in BOOLEAN :
       IF ok
         THEN /\ output' = "created"
              /\ pc' = "build_props"
              /\ UNCHANGED result
         ELSE /\ Return(FromIoError("create_output"))
              /\ UNCHANGED output
  /\ UNCHANGED <<opts, lines, schema_json, input, schema, inferCalls, stdout, stderr,
                 reader, props, writer, batch, yielded, reads, writes>>

\* ---------------------------------------------------------------- writer properties
\* WriterProperties::builder(): no setting made, every value the library default.
builder ==
  [dictionary_enabled |-> None, statistics_enabled |-> None, compression |-> None,
   encoding |-> None, write_batch_size |-> None, data_page_size_limit |-> None,
   dictionary_page_size_limit |-> None, max_row_group_size |-> None,
   created_by |-> None, max_statistics_size |-> None]

\* The library's default for dictionary encoding, in force while the builder
\* was not told otherwise.
DEFAULT_DICTIONARY_ENABLED == TRUE

dictionary_enabled(p) == unwrap_or(p.dictionary_enabled, DEFAULT_DICTIONARY_ENABLED)

\* match statistics { Chunk => EnabledStatistics::Chunk, ... }
MapStatistics(s) ==
  CASE s = "Chunk" -> "EnabledStatistics::Chunk"
    [] s = "Page" -> "EnabledStatistics::Page"
    [] s = "None" -> "EnabledStatistics::None"

\* match compression { GZIP => Compression::GZIP(GzipLevel::default()), ... }
MapCompression(c) ==
  CASE c = "UNCOMPRESSED" -> "Compression::UNCOMPRESSED"
    [] c = "SNAPPY" -> "Compression::SNAPPY"
    [] c = "GZIP" -> "Compression::GZIP(GzipLevel::default())"
    [] c = "LZO" -> "Compression::LZO"
    [] c = "BROTLI" -> "Compression::BROTLI(BrotliLevel::default())"
    [] c = "LZ4" -> "Compression::LZ4"
    [] c = "ZSTD" -> "Compression::ZSTD(ZstdLevel::default())"
    [] c = "LZ4_RAW" -> "Compression::LZ4_RAW"

\* match encoding { PLAIN => Encoding::PLAIN, ... }
MapEncoding(e) ==
  CASE e = "PLAIN" -> "Encoding::PLAIN"
    [] e = "PLAIN_DICTIONARY" -> "Encoding::PLAIN_DICTIONARY"
    [] e = "RLE" -> "Encoding::RLE"
    [] e = "RLE_DICTIONARY" -> "Encoding::RLE_DICTIONARY"
    [] e = "DELTA_BINARY_PACKED" -> "Encoding::DELTA_BINARY_PACKED"
    [] e = "DELTA_LENGTH_BYTE_ARRAY" -> "Encoding::DELTA_LENGTH_BYTE_ARRAY"
    [] e = "DELTA_BYTE_ARRAY" -> "Encoding::DELTA_BYTE_ARRAY"
    [] e = "BYTE_STREAM_SPLIT" -> "Encoding::BYTE_STREAM_SPLIT"

\* props.set_encoding(encoding) aborts on a dictionary encoding.
SetEncodingPanics(o) ==
  /\ o.encoding # None
  /\ MapEncoding(o.encoding[1]) \in {"Encoding::PLAIN_DICTIONARY", "Encoding::RLE_DICTIONARY"}

\* Mutant of BuildWriterProperties: the compression setting is never applied.
BuildWriterProperties_NoCompression(o) ==
  LET Set(p, f, v) == IF v = None THEN p ELSE [p EXCEPT ![f] = v]
      Map(v, F(_)) == IF v = None THEN None ELSE Some(F(v[1]))
      p0 == [builder EXCEPT !.dictionary_enabled = Some(o.dictionary)]
      p1 == Set(p0, "statistics_enabled", Map(o.statistics, MapStatistics))
      p3 == Set(p1, "encoding", Map(o.encoding, MapEncoding))
      p4 == Set(p3, "write_batch_size", o.write_batch_size)
      p5 == Set(p4, "data_page_size_limit", o.data_page_size_limit)
      p7 == Set(p5, "dictionary_page_size_limit", o.dictionary_page_size_limit)
      p8 == Set(p7, "max_row_group_size", o.max_row_group_size)
      p9 == Set(p8, "created_by", o.created_by)
  IN  Set(p9, "max_statistics_size", o.max_statistics_size)

\* The builder calls of convert, in program order.
BuildWriterProperties(o) ==
  LET p0 == [builder EXCEPT !.dictionary_enabled = Some(o.dictionary)]
      p1 == IF o.statistics # None
              THEN [p0 EXCEPT !.statistics_enabled = Some(MapStatistics(o.statistics[1]))]
              ELSE p0
      p2 == IF o.compression # None
              THEN [p1 EXCEPT !.compression = Some(MapCompression(o.compression[1]))]
              ELSE p1
      p3 == IF o.encoding # None
              THEN [p2 EXCEPT !.encoding = Some(MapEncoding(o.encoding[1]))]
              ELSE p2
      p4 == IF o.write_batch_size # None
              THEN [p3 EXCEPT !.write_batch_size = Some(o.write_batch_size[1])]
              ELSE p3
      p5 == IF o.data_page_size_limit # None
              THEN [p4 EXCEPT !.data_page_size_limit = Some(o.data_page_size_limit[1])]
              ELSE p4
      p6 == IF o.dictionary_page_size_limit # None
              THEN [p5 EXCEPT !.dictionary_page_size_limit =
                                 Some(o.dictionary_page_size_limit[1])]
              ELSE p5
      p7 == IF o.dictionary_page_size_limit # None
              THEN [p6 EXCEPT !.dictionary_page_size_limit =
                                 Some(o.dictionary_page_size_limit[1])]
              ELSE p6
      p8 == IF o.max_row_group_size # None
              THEN [p7 EXCEPT !.max_row_group_size = Some(o.max_row_group_size[1])]
              ELSE p7
      p9 == IF o.created_by # None
              THEN [p8 EXCEPT !.created_by = Some(o.created_by[1])]
              ELSE p8
      p10 == IF o.max_statistics_size # None
               THEN [p9 EXCEPT !.max_statistics_size = Some(o.max_statistics_size[1])]
               ELSE p9
  IN  p10

\* let mut props = WriterProperties::builder()...; if let Some(..) { props = props.set_..(..) }
BuildProps ==
  /\ pc = "build_props"
  /\ IF SetEncodingPanics(opts)
       THEN /\ pc' = "panicked"
            /\ UNCHANGED props
       ELSE /\ props' = Some(BuildWriterProperties(opts))
            /\ pc' = "new_writer"
  /\ UNCHANGED <<opts, lines, schema_json, input, schema, inferCalls, stdout, stderr,
                 reader, output, writer, batch, yielded, reads, writes, result>>

\* let mut writer = ArrowWriter::try_new(output, reader.schema(), Some(props.build()))?;
NewWriter ==
  /\ pc = "new_writer"
  /\ \E ok \in BOOLEAN :
       IF ok
         THEN /\ writer' = [state |-> "open", schema |-> reader.schema,
                            props |-> props, batches |-> <<>>]
              /\ pc' = "next_batch"
              /\ UNCHANGED result
         ELSE /\ Return(Passthrough("new_writer"))
              /\ UNCHANGED writer
  /\ UNCHANGED <<opts, lines, schema_json, input, schema, inferCalls, stdout, stderr,
                 reader, output, props, batch, yielded, reads, writes>>

\* A batch decodes when its values fit the reader's schema.
Decodes(rows, t) == t = "Utf8" \/ \A i \in 1..Len(rows) : IsInt(rows[i])

\* Mutant of NextBatch: a batch that fails to read is skipped and the loop goes on.
NextBatch_SkipError ==
  /\ pc = "next_batch"
  /\ IF reader.rows = <<>>
       THEN /\ pc' = "close"
            /\ UNCHANGED <<reader, batch, yielded, reads, result>>
       ELSE LET n == Min(BatchSize, Len(reader.rows))
                b == SubSeq(reader.rows, 1, n)
            IN  \E ok \in (IF Decodes(b, reader.schema[1]) THEN BOOLEAN ELSE {FALSE}) :
                  /\ reader' = [reader EXCEPT
                                  !.rows = SubSeq(reader.rows, n + 1, Len(reader.rows))]
                  /\ IF ok
                       THEN /\ batch' = Some(b)
                            /\ yielded' = Append(yielded, b)
                            /\ pc' = "write_batch"
                            /\ UNCHANGED <<reads, result>>
                       ELSE /\ reads' = reads + 1
                            /\ pc' = "next_batch"
                            /\ UNCHANGED <<batch, yielded, result>>
  /\ UNCHANGED <<opts, lines, schema_json, input, schema, inferCalls, stdout, stderr,
                 output, props, writer, writes>>

\* for batch in reader { match batch { Ok(batch) => .., Err(error) => return Err(error.into()) } }
NextBatch ==
  /\ pc = "next_batch"
  /\ IF reader.rows = <<>>
       THEN /\ pc' = "close"
            /\ UNCHANGED <<reader, batch, yielded, reads, result>>
       ELSE LET n == Min(BatchSize, Len(reader.rows))
                b == SubSeq(reader.rows, 1, n)
            IN  \E ok \in (IF Decodes(b, reader.schema[1]) THEN BOOLEAN ELSE {FALSE}) :
                  IF ok
                    THEN /\ batch' = Some(b)
                         /\ reader' = [reader EXCEPT
                                         !.rows = SubSeq(reader.rows, n + 1, Len(reader.rows))]
                         /\ yielded' = Append(yielded, b)
                         /\ pc' = "write_batch"
                         /\ UNCHANGED <<reads, result>>
                    ELSE /\ reads' = reads + 1
                         /\ Return(FromArrowError("next_batch"))
                         /\ UNCHANGED <<reader, batch, yielded>>
  /\ UNCHANGED <<opts, lines, schema_json, input, schema, inferCalls, stdout, stderr,
                 output, props, writer, writes>>

\* Ok(batch) => writer.write(&batch)?
WriteBatch ==
  /\ pc = "write_batch"
  /\ \E ok \in BOOLEAN :
       IF ok
         THEN /\ writer' = [writer EXCEPT !.batches = Append(writer.batches, batch[1])]
              /\ batch' = None
              /\ pc' = "next_batch"
              /\ UNCHANGED <<writes, result>>
         ELSE /\ writes' = writes + 1
              /\ Return(Passthrough("write_batch"))
              /\ UNCHANGED <<writer, batch>>
  /\ UNCHANGED <<opts, lines, schema_json, input, schema, inferCalls, stdout, stderr,
                 reader, output, props, yielded, reads>>

\* match writer.close() { Ok(_) => Ok(()), Err(error) => Err(error) }
CloseWriter ==
  /\ pc = "close"
  /\ \E ok \in BOOLEAN :
       IF ok
         THEN /\ writer' = [writer EXCEPT !.state = "closed"]
              /\ Return(Ok("full"))
         ELSE /\ writer' = [writer EXCEPT !.state = "close_failed"]
              /\ Return(Passthrough("close"))
  /\ UNCHANGED <<opts, lines, schema_json, input, schema, inferCalls, stdout, stderr,
                 reader, output, props, batch, yielded, reads, writes>>

\* ---------------------------------------------------------------- specifications
Next ==
  \/ OpenInput
  \/ WrapInput
  \/ LoadSchemaFile
  \/ InferSchema
  \/ PrintSchema
  \/ BuildReader
  \/ CreateOutput
  \/ BuildProps
  \/ NewWriter
  \/ NextBatch
  \/ WriteBatch
  \/ CloseWriter

\* convert over every pipeline configuration and every input file.
Spec == Init /\ [][Next]_vars

\* convert over every combination of writer settings (and one configuration
\* with a schema file), on one input file of a header and one row.
InitProps ==
  InitWith(WriterOpts \cup {[DefaultOpts EXCEPT !.schema_file = Some("schema.json")]},
           {<<"x", "1">>}, {"Utf8"})
PropsSpec == InitProps /\ [][Next]_vars

\* ---------------------------------------------------------------- properties
RECURSIVE Flatten(_)
Flatten(bs) == IF bs = <<>> THEN <<>> ELSE Head(bs) \o Flatten(Tail(bs))

\* The data rows of a file with a header line.
DataRows(ls) == SubSeq(ls, 2, Len(ls))

PreOutputSteps ==
  {"open_input", "schema_open", "schema_parse", "infer_schema", "build_reader"}

\* The schema-print step of convert has been passed.
SchemaStepDone ==
  schema # None /\ pc \notin {"open_input", "wrap_input", "resolve_schema", "print_schema"}

\* The writer-properties step of convert has been passed.
PropsStepDone == output = "created" /\ pc # "build_props"

DictionaryEncodings == {Some("PLAIN_DICTIONARY"), Some("RLE_DICTIONARY")}

\* C1: with a header line and an inferred schema, a successful non-dry convert
\* has written exactly the data rows of the input, in order.
C1_RoundTrip ==
  (pc = "done" /\ result = Ok("full") /\ opts.schema_file = None /\ Header)
    => Flatten(writer.batches) = DataRows(lines)

\* C2: with dry set, the output path is never touched, no reader, writer
\* properties or writer is built and no batch is read; the run ends either in
\* a failure of input open / schema resolution or in success with exactly the
\* schema output on the two streams.
C2_DryNeverWrites ==
  opts.dry =>
    /\ output = "untouched"
    /\ ~reader.built /\ props = None /\ writer = NoWriter
    /\ batch = None /\ yielded = <<>>
    /\ pc \in {"open_input", "wrap_input", "resolve_schema", "print_schema", "done"}
    /\ pc = "done" =>
         \/ /\ result.tag = "Err"
            /\ result.at \in {"open_input", "schema_open", "schema_parse", "infer_schema"}
            /\ stdout = <<>> /\ stderr = <<>>
         \/ /\ result = Ok("dry")
            /\ schema # None
            /\ stderr = <<"Schema:">>
            /\ stdout = <<to_string_pretty(schema[1])>>

C2_Witness == opts.dry /\ ~opts.print_schema /\ pc = "done" /\ result = Ok("dry")

\* C3: a failure before the output-open step leaves the output path untouched,
\* and a schema file that fails to open or parse never leads to inference.
C3_FailBeforeOutput ==
  /\ (result.tag = "Err" /\ result.at \in PreOutputSteps)
       => output = "untouched" /\ writer = NoWriter
  /\ (result.tag = "Err" /\ result.at \in {"schema_open", "schema_parse"})
       => inferCalls = 0 /\ schema = None

C3_Witness ==
  pc = "done" /\ result.tag = "Err" /\ result.at = "build_reader" /\ output = "untouched"

\* C4: with a schema file, inference is never called and the reader and the
\* writer get exactly the schema of the file.
C4_ExplicitSchemaWins ==
  opts.schema_file # None =>
    /\ inferCalls = 0
    /\ reader.built => reader.schema = Some(schema_json)
    /\ writer.state # "none" => writer.schema = Some(schema_json)

C4_Witness ==
  /\ opts.schema_file # None
  /\ writer.state = "closed"
  /\ schema_json # infer_schema(lines, Header, opts.max_read_records)

\* C5: once the writer exists, convert returns only with the writer closed.
C5_WriterFinalized ==
  (pc = "done" /\ writer.state # "none") => writer.state \in {"closed", "close_failed"}

C7_SchemaOnBothStreams ==
  SchemaStepDone =>
    IF opts.print_schema \/ opts.dry
      THEN /\ stderr = <<"Schema:", to_string_pretty(schema[1])>>
           /\ stdout = <<to_string_pretty(schema[1])>>
      ELSE stderr = <<>> /\ stdout = <<>>

\* C8: at most one read or write fails, and that failure ends convert with its
\* error; the batches written are, in order and once each, the batches the
\* reader yielded, which are consecutive slices of the rows of the stream.
C8_FirstErrorFinal ==
  /\ reads + writes <= 1
  /\ reads = 1 => pc = "done" /\ result = FromArrowError("next_batch")
  /\ writes = 1 => pc = "done" /\ result = Passthrough("write_batch")
  /\ Len(writer.batches) <= Len(yielded)
  /\ Len(yielded) <= Len(writer.batches) + 1
  /\ writer.batches = SubSeq(yielded, 1, Len(writer.batches))
  /\ (result.tag = "Err" /\ result.at = "next_batch") => writer.batches = yielded
  /\ (result.tag = "Err" /\ result.at = "write_batch") =>
       /\ Len(yielded) = Len(writer.batches) + 1
       /\ batch = Some(yielded[Len(yielded)])
  /\ reader.built =>
       Flatten(yielded) \o reader.rows = RowsFrom(lines, input.pos, Header)

C8_Witness ==
  /\ pc = "done" /\ result.tag = "Err" /\ result.at = "next_batch"
  /\ Len(writer.batches) = 1 /\ reader.rows # <<>>

\* C9 (as claimed): input open, schema file, inference and batch-read failures
\* are General errors; writer failures are the writer's own errors.
C9_FourSourcesGeneral ==
  result.tag = "Err" =>
    /\ result.at \in {"open_input", "schema_open", "schema_parse", "infer_schema",
                      "next_batch"} => result.kind = "General"
    /\ result.at \in {"new_writer", "write_batch", "close"} => result.kind = "Parquet"

\* C9 (amended): schema file and inference failures are General errors; input
\* open, reader build, output create and batch-read failures are converted
\* from the io/Arrow error; writer failures are the writer's own errors.
C9_ErrorKinds ==
  result.tag = "Err" =>
    /\ result.at \in {"schema_open", "schema_parse", "infer_schema"}
         => result.kind = "General"
    /\ result.at \in {"open_input", "build_reader", "create_output", "next_batch"}
         => result.kind = "External"
    /\ result.at \in {"new_writer", "write_batch", "close"} => result.kind = "Parquet"

C9_Witness ==
  pc = "done" /\ result = Err("General", "infer_schema") /\ inferCalls = 1

\* C10: every run ends in a return; success is either the schema-only return
\* of dry mode or the return after the output was created, every batch yielded
\* until exhaustion was written once in order and the writer closed.
C10_TwoSuccesses ==
  /\ ~(ENABLED Next) => result.tag \in {"Ok", "Err"}
  /\ result = Ok("dry") => opts.dry /\ output = "untouched"
  /\ result = Ok("full") =>
       /\ ~opts.dry
       /\ output = "created"
       /\ reader.rows = <<>>
       /\ writer.batches = yielded
       /\ writer.state = "closed"

====
